---- MODULE Spec2Model ----
\* Model of couchbase/src/instance/request.rs: the five InstanceRequest
\* implementations (GetRequest, UpsertRequest, InsertRequest, ReplaceRequest,
\* RemoveRequest).  Each encode is modelled statement by statement; the native
\* library (couchbase_sys) is an external collaborator whose calls are logged
\* with the arguments the code passes and whose status results are arbitrary.
EXTENDS Integers, Sequences, FiniteSets, TLC

\* ---------------------------------------------------------------- bounds
MaxRequests == 2     \* requests constructed (and encoded) in one behaviour
MaxLen == 2          \* longest id / content, in bytes

\* ---------------------------------------------------------------- data
Bytes == {0, 1}      \* 0 is the NUL byte CString::new rejects

ByteStrings == UNION {[1..n -> Bytes] : n \in 0..MaxLen}

Range(s) == {s[i] : i \in 1..Len(s)}

NULL == 0            \* ptr::null_mut()

\* A u32 is kept as two 16-bit limbs <<lo, hi>> (value lo + 65536 * hi).
Limb == 2 ^ 16

U32(lo, hi) == <<lo, hi>>

U32Zero == U32(0, 0)

U32Max == U32(Limb - 1, Limb - 1)

\* flags: u32 -- passed through untouched
FlagValues == {U32(1, 0), U32Max}

\* std::time::Duration: whole seconds and a sub-second part in nanoseconds.
Duration(s, n) == [secs |-> s, nanos |-> n]

Durations ==
    { Duration(0, 999999),              \* just under 1 ms
      Duration(1, 500000001),           \* 1500 ms and a remainder
      Duration(4294967, 295999999),     \* 2^32 - 1 ms and a remainder
      Duration(4294967, 296000000),     \* 2^32 ms exactly
      Duration(4294968, 0) }            \* 2^32 + 704 ms

\* Option<Duration> as returned by options.timeout()
NoTimeout == [some |-> FALSE, secs |-> 0, nanos |-> 0]

SomeTimeout(d) == [some |-> TRUE, secs |-> d.secs, nanos |-> d.nanos]

\* Option<GetOptions> / Option<UpsertOptions> / ... : only the timeout is read
NoOptions == [some |-> FALSE, timeout |-> NoTimeout]

SomeOptions(t) == [some |-> TRUE, timeout |-> t]

Options ==
    {NoOptions} \cup {SomeOptions(NoTimeout)}
                \cup {SomeOptions(SomeTimeout(d)) : d \in Durations}

\* Duration::as_millis(): secs * 1000 + nanos / 1_000_000 as a u128, kept as
\* little-endian 16-bit limbs <<l0, l1, l2>> (enough for secs < 2^31).
as_millis(t) ==
    LET s0 == t.secs % Limb
        s1 == t.secs \div Limb
        a  == s0 * 1000 + (t.nanos \div 1000000)
        b  == s1 * 1000 + (a \div Limb)
    IN  <<a % Limb, b % Limb, b \div Limb>>

\* variant: a conversion that saturates at u32::MAX instead of truncating
as_u32_saturating(m) == IF m[3] > 0 THEN U32Max ELSE U32(m[1], m[2])

\* `as u32` on the u128: keeps the low 32 bits
as_u32(m) == U32(m[1], m[2])

\* lcb_STATUS results; encode never looks at them
lcb_STATUS == {"LCB_SUCCESS", "LCB_ERR"}

StoreKinds == {"Upsert", "Insert", "Replace"}

VARIABLES
    pc,           \* position of the running encode, "idle" when none runs
    self,         \* the request being encoded (Box<Self>)
    id_len,       \* local: self.id.len()
    id_encoded,   \* local: address of the CString made from the id
    command,      \* local: native command handle, NULL until created
    cookie,       \* local: address of the leaked Box<Sender>
    value_len,    \* local: self.content.len()
    value,        \* local: address of the CString made from the content
    heap,         \* live allocations: address -> contents
    nextAddr,     \* next fresh address
    calls,        \* native calls made by the running encode, in order
    dispatched,   \* every dispatch call handed to the native library so far
    dropped,      \* senders dropped by this code (their receivers are cancelled)
    created,      \* requests constructed so far; also the last sender id
    failed,       \* first native function of this encode that reported failure
    outcome       \* how the last encode ended: "none", "returned", "panicked"

locals == <<id_len, id_encoded, command, cookie, value_len, value>>

vars == <<pc, self, id_len, id_encoded, command, cookie, value_len, value,
          heap, nextAddr, calls, dispatched, dropped, created, failed, outcome>>

NoRequest == [kind |-> "none"]

Init ==
    /\ pc = "idle"
    /\ self = NoRequest
    /\ id_len = 0
    /\ id_encoded = NULL
    /\ command = NULL
    /\ cookie = NULL
    /\ value_len = 0
    /\ value = NULL
    /\ heap = <<>>
    /\ nextAddr = 1
    /\ calls = <<>>
    /\ dispatched = <<>>
    /\ dropped = {}
    /\ created = 0
    /\ failed = ""
    /\ outcome = "none"

\* ------------------------------------------------------- construction
\* XRequest::new followed by the call of encode on the boxed request: the
\* frame of the new encode starts with null / zero locals.
StartEncode(req) ==
    /\ created' = created + 1
    /\ self' = req
    /\ pc' = "id"
    /\ failed' = ""
    /\ outcome' = "none"
    /\ UNCHANGED <<locals, calls, heap, nextAddr, dispatched, dropped>>

GetRequest_new ==
    /\ pc = "idle"
    /\ created < MaxRequests
    /\ \E id \in ByteStrings, options \in Options :
        StartEncode([kind |-> "Get", sender |-> created + 1, id |-> id,
                     options |-> options])

UpsertRequest_new ==
    /\ pc = "idle"
    /\ created < MaxRequests
    /\ \E id \in ByteStrings, content \in ByteStrings, flags \in FlagValues,
          options \in Options :
        StartEncode([kind |-> "Upsert", sender |-> created + 1, id |-> id,
                     content |-> content, flags |-> flags, options |-> options])

InsertRequest_new ==
    /\ pc = "idle"
    /\ created < MaxRequests
    /\ \E id \in ByteStrings, content \in ByteStrings, flags \in FlagValues,
          options \in Options :
        StartEncode([kind |-> "Insert", sender |-> created + 1, id |-> id,
                     content |-> content, flags |-> flags, options |-> options])

ReplaceRequest_new ==
    /\ pc = "idle"
    /\ created < MaxRequests
    /\ \E id \in ByteStrings, content \in ByteStrings, flags \in FlagValues,
          options \in Options :
        StartEncode([kind |-> "Replace", sender |-> created + 1, id |-> id,
                     content |-> content, flags |-> flags, options |-> options])

RemoveRequest_new ==
    /\ pc = "idle"
    /\ created < MaxRequests
    /\ \E id \in ByteStrings, options \in Options :
        StartEncode([kind |-> "Remove", sender |-> created + 1, id |-> id,
                     options |-> options])

\* ------------------------------------------------------- heap helpers
Alloc(h, a, obj) == [x \in DOMAIN h \cup {a} |-> IF x = a THEN obj ELSE h[x]]

Free(h, a) == [x \in DOMAIN h \ {a} |-> h[x]]

\* CString::new(bytes): Err when the bytes hold a NUL, else a fresh buffer
\* holding the bytes followed by a terminating NUL.
CStringFails(bytes) == 0 \in Range(bytes)

CStringObj(bytes) == [type |-> "CString", bytes |-> Append(bytes, 0)]

BoxObj(sender) == [type |-> "Box", sender |-> sender]

\* one entry of the native call log
Call(fn, cmd, ptr, len, u32, op, ck) ==
    [fn |-> fn, command |-> cmd, ptr |-> ptr, len |-> len, u32 |-> u32,
     op |-> op, cookie |-> ck]

\* The native function fn is called with the logged arguments and returns an
\* arbitrary status st, which the code discards.
NativeCall(fn, entry, st) ==
    /\ calls' = Append(calls, entry)
    /\ failed' = IF failed = "" /\ st # "LCB_SUCCESS" THEN fn ELSE failed

\* ------------------------------------------------------- encode, by statement
\* variant: an id that does not encode is replaced by the empty string
\* instead of panicking
encode_id_lossy ==
    /\ pc = "id"
    /\ id_len' = Len(self.id)
    /\ id_encoded' = nextAddr
    /\ heap' = Alloc(heap, nextAddr,
                     CStringObj(IF CStringFails(self.id) THEN <<>> ELSE self.id))
    /\ nextAddr' = nextAddr + 1
    /\ pc' = "box"
    /\ command' = NULL
    /\ UNCHANGED <<self, cookie, value_len, value, calls, dispatched, dropped,
                   created, failed, outcome>>

\* variant: the CString is a temporary, released at the end of the statement
\* that takes its pointer
encode_id_temporary ==
    /\ pc = "id"
    /\ id_len' = Len(self.id)
    /\ IF CStringFails(self.id)
       THEN /\ pc' = "panic"
            /\ UNCHANGED <<id_encoded, nextAddr>>
       ELSE /\ id_encoded' = nextAddr
            /\ nextAddr' = nextAddr + 1
            /\ pc' = "box"
    /\ command' = NULL
    /\ UNCHANGED <<self, cookie, value_len, value, heap, calls, dispatched,
                   dropped, created, failed, outcome>>

\* let id_len = self.id.len();
\* let id_encoded = CString::new(self.id).expect("Could not encode ID");
\* let mut command = ptr::null_mut();
encode_id ==
    /\ pc = "id"
    /\ id_len' = Len(self.id)
    /\ IF CStringFails(self.id)
       THEN /\ pc' = "panic"
            /\ UNCHANGED <<id_encoded, heap, nextAddr>>
       ELSE /\ id_encoded' = nextAddr
            /\ heap' = Alloc(heap, nextAddr, CStringObj(self.id))
            /\ nextAddr' = nextAddr + 1
            /\ pc' = "box"
    /\ command' = NULL
    /\ UNCHANGED <<self, cookie, value_len, value, calls, dispatched, dropped,
                   created, failed, outcome>>

\* variant: the cookie is the address of a sender that is not kept in a
\* leaked box
box_sender_unboxed(next) ==
    /\ pc = "box"
    /\ cookie' = nextAddr
    /\ nextAddr' = nextAddr + 1
    /\ pc' = next
    /\ UNCHANGED <<self, id_len, id_encoded, command, value_len, value, heap,
                   calls, dispatched, dropped, created, failed, outcome>>

\* let sender_boxed = Box::new(self.sender);
\* let cookie = Box::into_raw(sender_boxed) as *mut c_void;
box_sender(next) ==
    /\ pc = "box"
    /\ cookie' = nextAddr
    /\ heap' = Alloc(heap, nextAddr, BoxObj(self.sender))
    /\ nextAddr' = nextAddr + 1
    /\ pc' = next
    /\ UNCHANGED <<self, id_len, id_encoded, command, value_len, value, calls,
                   dispatched, dropped, created, failed, outcome>>

\* let value_len = self.content.len();
\* let value = CString::new(self.content).expect("Could not turn value into lcb format");
encode_value ==
    /\ pc = "value"
    /\ value_len' = Len(self.content)
    /\ IF CStringFails(self.content)
       THEN /\ pc' = "panic"
            /\ UNCHANGED <<value, heap, nextAddr>>
       ELSE /\ value' = nextAddr
            /\ heap' = Alloc(heap, nextAddr, CStringObj(self.content))
            /\ nextAddr' = nextAddr + 1
            /\ pc' = "create"
    /\ UNCHANGED <<self, id_len, id_encoded, command, cookie, calls, dispatched,
                   dropped, created, failed, outcome>>

\* variant: the status of the create call is inspected and encode returns
\* early on failure
cmd_create_checked(fn, op) ==
    /\ pc = "create"
    /\ \E st \in lcb_STATUS :
        /\ NativeCall(fn, Call(fn, NULL, NULL, 0, U32Zero, op, NULL), st)
        /\ command' = IF st = "LCB_SUCCESS" THEN created ELSE command
        /\ pc' = IF st = "LCB_SUCCESS" THEN "key" ELSE "return"
    /\ UNCHANGED <<self, id_len, id_encoded, cookie, value_len, value, heap,
                   nextAddr, dispatched, dropped, created, outcome>>

\* lcb_cmdget_create(&mut command) / lcb_cmdstore_create(&mut command, op) /
\* lcb_cmdremove_create(&mut command): on success the out-parameter receives a
\* new command handle, on failure it stays null.
cmd_create(fn, op) ==
    /\ pc = "create"
    /\ \E st \in lcb_STATUS :
        /\ NativeCall(fn, Call(fn, NULL, NULL, 0, U32Zero, op, NULL), st)
        /\ command' = IF st = "LCB_SUCCESS" THEN created ELSE command
    /\ pc' = "key"
    /\ UNCHANGED <<self, id_len, id_encoded, cookie, value_len, value, heap,
                   nextAddr, dispatched, dropped, created, outcome>>

\* variant: the key length counts the terminating NUL of the CString
cmd_key_with_nul(fn, next) ==
    /\ pc = "key"
    /\ \E st \in lcb_STATUS :
        NativeCall(fn, Call(fn, command, id_encoded, id_len + 1, U32Zero, "", NULL),
                   st)
    /\ pc' = next
    /\ UNCHANGED <<self, locals, heap, nextAddr, dispatched, dropped, created,
                   outcome>>

\* lcb_cmd*_key(command, id_encoded.as_ptr(), id_len);
cmd_key(fn, next) ==
    /\ pc = "key"
    /\ \E st \in lcb_STATUS :
        NativeCall(fn, Call(fn, command, id_encoded, id_len, U32Zero, "", NULL), st)
    /\ pc' = next
    /\ UNCHANGED <<self, locals, heap, nextAddr, dispatched, dropped, created,
                   outcome>>

\* lcb_cmdstore_flags(command, self.flags);
cmd_flags(fn, next) ==
    /\ pc = "flags"
    /\ \E st \in lcb_STATUS :
        NativeCall(fn, Call(fn, command, NULL, 0, self.flags, "", NULL), st)
    /\ pc' = next
    /\ UNCHANGED <<self, locals, heap, nextAddr, dispatched, dropped, created,
                   outcome>>

\* lcb_cmdstore_value(command, value.into_raw() as *const c_char, value_len);
\* into_raw gives up ownership of the buffer without releasing it.
cmd_value(fn, next) ==
    /\ pc = "set_value"
    /\ \E st \in lcb_STATUS :
        NativeCall(fn, Call(fn, command, value, value_len, U32Zero, "", NULL), st)
    /\ pc' = next
    /\ UNCHANGED <<self, locals, heap, nextAddr, dispatched, dropped, created,
                   outcome>>

\* variant: the timeout setter is called whenever options are present, with a
\* zero timeout when they carry none
cmd_timeout_always(fn) ==
    /\ pc = "timeout"
    /\ IF self.options.some
       THEN \E st \in lcb_STATUS :
                NativeCall(fn, Call(fn, command, NULL, 0,
                                    as_u32(as_millis(self.options.timeout)),
                                    "", NULL), st)
       ELSE UNCHANGED <<calls, failed>>
    /\ pc' = "dispatch"
    /\ UNCHANGED <<self, locals, heap, nextAddr, dispatched, dropped, created,
                   outcome>>

\* if let Some(options) = self.options {
\*     if let Some(timeout) = options.timeout() {
\*         lcb_cmd*_timeout(command, timeout.as_millis() as u32);
cmd_timeout(fn) ==
    /\ pc = "timeout"
    /\ IF self.options.some /\ self.options.timeout.some
       THEN \E st \in lcb_STATUS :
                NativeCall(fn, Call(fn, command, NULL, 0,
                                    as_u32(as_millis(self.options.timeout)),
                                    "", NULL), st)
       ELSE UNCHANGED <<calls, failed>>
    /\ pc' = "dispatch"
    /\ UNCHANGED <<self, locals, heap, nextAddr, dispatched, dropped, created,
                   outcome>>

\* lcb_get(instance, cookie, command) / lcb_store(...) / lcb_remove(...)
dispatch(fn) ==
    /\ pc = "dispatch"
    /\ \E st \in lcb_STATUS :
        NativeCall(fn, Call(fn, command, NULL, 0, U32Zero, "", cookie), st)
    /\ dispatched' = Append(dispatched,
                            [fn |-> fn, cookie |-> cookie, request |-> created])
    /\ pc' = "return"
    /\ UNCHANGED <<self, locals, heap, nextAddr, dropped, created, outcome>>

\* The frame of an encode that has ended: its locals are gone.
LeaveFrame ==
    /\ self' = NoRequest
    /\ id_len' = 0
    /\ id_encoded' = NULL
    /\ command' = NULL
    /\ cookie' = NULL
    /\ value_len' = 0
    /\ value' = NULL
    /\ calls' = <<>>
    /\ pc' = "idle"

\* End of encode: the locals that still own something are dropped.  Only
\* id_encoded does (cookie is a raw pointer, value was given up by into_raw);
\* the request itself has been consumed.
end_of_encode ==
    /\ pc = "return"
    /\ heap' = Free(heap, id_encoded)
    /\ LeaveFrame
    /\ outcome' = "returned"
    /\ UNCHANGED <<nextAddr, dispatched, dropped, created, failed>>

\* A failed expect(): the panic unwinds the frame.  id_encoded is released when
\* it exists; self.sender is dropped when it is still owned by the request,
\* that is when it has not been boxed and turned into a raw pointer.
unwind ==
    /\ pc = "panic"
    /\ heap' = IF id_encoded # NULL THEN Free(heap, id_encoded) ELSE heap
    /\ dropped' = IF cookie = NULL THEN dropped \cup {self.sender} ELSE dropped
    /\ LeaveFrame
    /\ outcome' = "panicked"
    /\ UNCHANGED <<nextAddr, dispatched, created, failed>>

\* impl InstanceRequest for GetRequest
GetRequest_encode ==
    /\ self.kind = "Get"
    /\ \/ encode_id
       \/ box_sender("create")
       \/ cmd_create("lcb_cmdget_create", "")
       \/ cmd_key("lcb_cmdget_key", "timeout")
       \/ cmd_timeout("lcb_cmdget_timeout")
       \/ dispatch("lcb_get")
       \/ end_of_encode
       \/ unwind

\* variant: the value is set before the flags
store_encode_swapped(op) ==
    \/ encode_id
    \/ box_sender("value")
    \/ encode_value
    \/ cmd_create("lcb_cmdstore_create", op)
    \/ cmd_key("lcb_cmdstore_key", "set_value")
    \/ cmd_value("lcb_cmdstore_value", "flags")
    \/ cmd_flags("lcb_cmdstore_flags", "timeout")
    \/ cmd_timeout("lcb_cmdstore_timeout")
    \/ dispatch("lcb_store")
    \/ end_of_encode
    \/ unwind

\* the body shared, statement for statement, by the three store requests
store_encode(op) ==
    \/ encode_id
    \/ box_sender("value")
    \/ encode_value
    \/ cmd_create("lcb_cmdstore_create", op)
    \/ cmd_key("lcb_cmdstore_key", "flags")
    \/ cmd_flags("lcb_cmdstore_flags", "set_value")
    \/ cmd_value("lcb_cmdstore_value", "timeout")
    \/ cmd_timeout("lcb_cmdstore_timeout")
    \/ dispatch("lcb_store")
    \/ end_of_encode
    \/ unwind

\* impl InstanceRequest for UpsertRequest
UpsertRequest_encode ==
    /\ self.kind = "Upsert"
    /\ store_encode("LCB_STORE_UPSERT")

\* variant: insert built from upsert without changing the store operation
InsertRequest_encode_as_upsert ==
    /\ self.kind = "Insert"
    /\ store_encode("LCB_STORE_UPSERT")

\* impl InstanceRequest for InsertRequest
InsertRequest_encode ==
    /\ self.kind = "Insert"
    /\ store_encode("LCB_STORE_ADD")

\* impl InstanceRequest for ReplaceRequest
ReplaceRequest_encode ==
    /\ self.kind = "Replace"
    /\ store_encode("LCB_STORE_REPLACE")

\* impl InstanceRequest for RemoveRequest
RemoveRequest_encode ==
    /\ self.kind = "Remove"
    /\ \/ encode_id
       \/ box_sender("create")
       \/ cmd_create("lcb_cmdremove_create", "")
       \/ cmd_key("lcb_cmdremove_key", "timeout")
       \/ cmd_timeout("lcb_cmdremove_timeout")
       \/ dispatch("lcb_remove")
       \/ end_of_encode
       \/ unwind

Next ==
    \/ GetRequest_new
    \/ UpsertRequest_new
    \/ InsertRequest_new
    \/ ReplaceRequest_new
    \/ RemoveRequest_new
    \/ GetRequest_encode
    \/ UpsertRequest_encode
    \/ InsertRequest_encode
    \/ ReplaceRequest_encode
    \/ RemoveRequest_encode

Spec == Init /\ [][Next]_vars

\* =================================================================== claims
CreateFns == {"lcb_cmdget_create", "lcb_cmdstore_create", "lcb_cmdremove_create"}

KeyFns == {"lcb_cmdget_key", "lcb_cmdstore_key", "lcb_cmdremove_key"}

TimeoutFns == {"lcb_cmdget_timeout", "lcb_cmdstore_timeout", "lcb_cmdremove_timeout"}

DispatchFns == {"lcb_get", "lcb_store", "lcb_remove"}

Running == pc # "idle"

IsStore == self.kind \in StoreKinds

HasZeroByte(s) == \E i \in 1..Len(s) : s[i] = 0

CallIdx(F) == {i \in 1..Len(calls) : calls[i].fn \in F}

\* the native functions a request kind may call, as the claim lists them
WantCreate(k) ==
    CASE k = "Get" -> "lcb_cmdget_create"
      [] k = "Remove" -> "lcb_cmdremove_create"
      [] OTHER -> "lcb_cmdstore_create"

WantDispatch(k) ==
    CASE k = "Get" -> "lcb_get"
      [] k = "Remove" -> "lcb_remove"
      [] OTHER -> "lcb_store"

WantOp(k) ==
    CASE k = "Upsert" -> "LCB_STORE_UPSERT"
      [] k = "Insert" -> "LCB_STORE_ADD"
      [] k = "Replace" -> "LCB_STORE_REPLACE"
      [] OTHER -> ""

FamilyOf(k) ==
    CASE k = "Get" -> {"lcb_cmdget_create", "lcb_cmdget_key", "lcb_cmdget_timeout",
                       "lcb_get"}
      [] k = "Remove" -> {"lcb_cmdremove_create", "lcb_cmdremove_key",
                          "lcb_cmdremove_timeout", "lcb_remove"}
      [] OTHER -> {"lcb_cmdstore_create", "lcb_cmdstore_key", "lcb_cmdstore_flags",
                   "lcb_cmdstore_value", "lcb_cmdstore_timeout", "lcb_store"}

\* C1: an encode whose id (and content) encoded issues exactly one dispatch
\* call, the one of its request kind, on the command made by the create call
\* of that kind (for store requests: created with the operation of the kind);
\* no call or store operation of another kind is ever issued.
C1_DispatchMatchesKind ==
    Running =>
        /\ \A i \in 1..Len(calls) :
            /\ calls[i].fn \in FamilyOf(self.kind)
            /\ calls[i].fn \in CreateFns =>
                /\ calls[i].fn = WantCreate(self.kind)
                /\ calls[i].op = WantOp(self.kind)
            /\ calls[i].fn \in DispatchFns =>
                /\ calls[i].fn = WantDispatch(self.kind)
                /\ CallIdx(CreateFns) = {1}
                /\ calls[i].command = command
                /\ failed # calls[1].fn => calls[i].command = created
        /\ Cardinality(CallIdx(DispatchFns)) = (IF pc = "return" THEN 1 ELSE 0)
        /\ \A i \in 1..Len(dispatched) :
            dispatched[i].request = created =>
                /\ pc = "return"
                /\ dispatched[i].fn = WantDispatch(self.kind)

C1_Witness ==
    /\ pc = "return"
    /\ self.kind = "Insert"
    /\ \E i \in 1..Len(calls) :
        calls[i].fn = "lcb_cmdstore_create" /\ calls[i].op = "LCB_STORE_ADD"
    /\ calls[Len(calls)].fn = "lcb_store"

\* C2: once an encode has ended, by returning or by panicking, every sender
\* that was boxed and turned into a raw pointer has been handed to the native
\* library as the cookie of a dispatch call.
C2_NoLeakedHandleUndispatched ==
    pc = "idle" =>
        \A a \in DOMAIN heap :
            heap[a].type = "Box" =>
                \E i \in 1..Len(dispatched) : dispatched[i].cookie = a

\* C3: the cookie of a dispatch call is the boxed sender of the request that
\* made the call and of no other; the cookies of the dispatch calls issued so
\* far are pairwise distinct, one per dispatched request, and no sender is
\* boxed twice (an ended encode has consumed its request).
C3_CookieIsOwnSender ==
    /\ \A i \in 1..Len(dispatched) :
        /\ dispatched[i].cookie \in DOMAIN heap
        /\ heap[dispatched[i].cookie].type = "Box"
        /\ heap[dispatched[i].cookie].sender = dispatched[i].request
        /\ \A j \in 1..Len(dispatched) :
            i # j => /\ dispatched[i].cookie # dispatched[j].cookie
                     /\ dispatched[i].request # dispatched[j].request
    /\ \A a \in DOMAIN heap, b \in DOMAIN heap :
        (heap[a].type = "Box" /\ heap[b].type = "Box"
            /\ heap[a].sender = heap[b].sender) => a = b
    /\ \A i \in CallIdx(DispatchFns) :
        /\ calls[i].cookie \in DOMAIN heap
        /\ heap[calls[i].cookie].type = "Box"
        /\ heap[calls[i].cookie].sender = self.sender
    /\ pc = "idle" => self = NoRequest

C3_Witness ==
    /\ Len(dispatched) = 2
    /\ dispatched[1].fn = "lcb_store"
    /\ dispatched[2].fn = "lcb_get"

\* C4: encode panics exactly when the id holds a zero byte or, for a store
\* request, the content does; a panicking encode has made no native call, and
\* an encode of inputs without a zero byte does not panic.
C4_PanicIffZeroByte ==
    /\ pc = "panic" =>
        /\ calls = <<>>
        /\ \A i \in 1..Len(dispatched) : dispatched[i].request # created
        /\ \/ HasZeroByte(self.id)
           \/ IsStore /\ HasZeroByte(self.content)
    /\ (Running /\ pc \notin {"id", "panic"}) => ~HasZeroByte(self.id)
    /\ (Running /\ IsStore /\ pc \notin {"id", "box", "value", "panic"}) =>
            ~HasZeroByte(self.content)
    /\ (Running /\ calls # <<>>) =>
        /\ ~HasZeroByte(self.id)
        /\ IsStore => ~HasZeroByte(self.content)
    /\ (pc = "idle" /\ outcome = "panicked") =>
        \A i \in 1..Len(dispatched) : dispatched[i].request # created

C4_Witness ==
    /\ pc = "panic"
    /\ IsStore
    /\ ~HasZeroByte(self.id)
    /\ HasZeroByte(self.content)
    /\ calls = <<>>

\* C5: the timeout setter is called exactly once when the request has options
\* carrying a timeout and not at all otherwise; the other native calls are the
\* same in both cases.
WantOtherFns(k) ==
    CASE k = "Get" -> <<"lcb_cmdget_create", "lcb_cmdget_key", "lcb_get">>
      [] k = "Remove" -> <<"lcb_cmdremove_create", "lcb_cmdremove_key", "lcb_remove">>
      [] OTHER -> <<"lcb_cmdstore_create", "lcb_cmdstore_key", "lcb_cmdstore_flags",
                    "lcb_cmdstore_value", "lcb_store">>

HasTimeout == self.options.some /\ self.options.timeout.some

FnsOf(cs) == [i \in 1..Len(cs) |-> cs[i].fn]

NotTimeoutCall(c) == c.fn \notin TimeoutFns

C5_TimeoutOnlyBranch ==
    Running =>
        /\ Cardinality(CallIdx(TimeoutFns)) =
              (IF HasTimeout /\ pc \in {"dispatch", "return"} THEN 1 ELSE 0)
        /\ pc = "return" =>
              FnsOf(SelectSeq(calls, NotTimeoutCall)) = WantOtherFns(self.kind)

C5_Witness ==
    /\ pc = "return"
    /\ self.options.some
    /\ ~self.options.timeout.some
    /\ CallIdx(TimeoutFns) = {}
    /\ Len(calls) = 3

\* C6: the status a native function returns changes nothing: whichever call
\* reported failure, encode goes on to make every later call, dispatches
\* exactly once, returns normally, and leaves the boxed sender alone (not
\* released, not dropped).
WantCallsBy(k, p, t) ==
    LET store == k \in StoreKinds
        n == CASE p \in {"id", "box", "value", "panic", "create"} -> 0
               [] p = "key" -> 1
               [] p = "flags" -> 2
               [] p = "set_value" -> 3
               [] p = "timeout" -> IF store THEN 4 ELSE 2
               [] OTHER -> (IF store THEN 4 ELSE 2) + (IF t THEN 1 ELSE 0)
    IN  IF p = "return" THEN n + 1 ELSE n

C6_StatusIgnored ==
    /\ Running =>
        /\ Len(calls) = WantCallsBy(self.kind, pc, HasTimeout)
        /\ failed # "" => pc # "panic"
        /\ pc = "return" => Cardinality(CallIdx(DispatchFns)) = 1
    /\ (pc = "idle" /\ failed # "") =>
        /\ outcome = "returned"
        /\ created \notin dropped
        /\ Cardinality({i \in 1..Len(dispatched) :
                            dispatched[i].request = created}) = 1
        /\ \A i \in 1..Len(dispatched) :
            dispatched[i].request = created =>
                /\ dispatched[i].cookie \in DOMAIN heap
                /\ heap[dispatched[i].cookie] = BoxObj(created)

C6_Witness ==
    /\ pc = "idle"
    /\ outcome = "returned"
    /\ failed \in DispatchFns
    /\ Len(dispatched) = 1
    /\ dispatched[1].cookie \in DOMAIN heap

\* C7: within one encode the native calls come in a fixed order: create, key,
\* (store only) flags, value, then the timeout if any, and the dispatch last;
\* get and remove never set flags or a value.
Rank(fn) ==
    CASE fn \in CreateFns -> 1
      [] fn \in KeyFns -> 2
      [] fn = "lcb_cmdstore_flags" -> 3
      [] fn = "lcb_cmdstore_value" -> 4
      [] fn \in TimeoutFns -> 5
      [] fn \in DispatchFns -> 6
      [] OTHER -> 0

C7_CallOrder ==
    Running =>
        /\ \A i \in 1..Len(calls) : Rank(calls[i].fn) # 0
        /\ \A i \in 1..Len(calls), j \in 1..Len(calls) :
            i < j => Rank(calls[i].fn) < Rank(calls[j].fn)
        /\ calls # <<>> => Rank(calls[1].fn) = 1
        /\ Len(calls) >= 2 => Rank(calls[2].fn) = 2
        /\ ~IsStore => \A i \in 1..Len(calls) : Rank(calls[i].fn) \notin {3, 4}
        /\ pc = "return" =>
            /\ Rank(calls[Len(calls)].fn) = 6
            /\ IsStore => {3, 4} \subseteq {Rank(calls[i].fn) : i \in 1..Len(calls)}

C7_Witness ==
    /\ pc = "return"
    /\ IsStore
    /\ [i \in 1..Len(calls) |-> Rank(calls[i].fn)] = <<1, 2, 3, 4, 5, 6>>

\* C8: the key passed is the id (its bytes, its byte length), and for a store
\* request the value passed is the content (its bytes, its byte length) and
\* the flags passed are the request's flags.
BytesAt(ptr, len) == SubSeq(heap[ptr].bytes, 1, len)

C8_FieldsUnchanged ==
    Running =>
        \A i \in 1..Len(calls) :
            /\ calls[i].fn \in KeyFns =>
                /\ calls[i].len = Len(self.id)
                /\ calls[i].ptr \in DOMAIN heap
                /\ Len(heap[calls[i].ptr].bytes) >= calls[i].len
                /\ BytesAt(calls[i].ptr, calls[i].len) = self.id
            /\ calls[i].fn = "lcb_cmdstore_value" =>
                /\ calls[i].len = Len(self.content)
                /\ calls[i].ptr \in DOMAIN heap
                /\ Len(heap[calls[i].ptr].bytes) >= calls[i].len
                /\ BytesAt(calls[i].ptr, calls[i].len) = self.content
            /\ calls[i].fn = "lcb_cmdstore_flags" => calls[i].u32 = self.flags

C8_Witness ==
    /\ pc = "return"
    /\ IsStore
    /\ Len(self.id) = 2
    /\ Len(self.content) = 1
    /\ self.flags = U32Max
    /\ \E i \in 1..Len(calls) :
        calls[i].fn = "lcb_cmdstore_flags" /\ calls[i].u32 = U32Max

\* C9: the value passed to the timeout setter is the timeout's whole number of
\* milliseconds modulo 2^32: the exact count below 2^32 ms, wrapped around from
\* 2^32 ms on, sub-millisecond remainders discarded.  2^32 = 4294967 * 1000 +
\* 296, so the expected value is computed here without exceeding 2^31:
\*   secs <= 2147482                  ms = secs * 1000 + sub        (< 2^31)
\*   secs = 4294967 and sub < 296     ms = 2^32 - (296 - sub)       (< 2^32)
\*   secs >= 4294967 otherwise        ms - 2^32 = (secs - 4294967) * 1000 + sub - 296
SubMillis(t) == t.nanos \div 1000000

LimbsOf(n) == <<n % 65536, n \div 65536>>

WantTimeout(t) ==
    CASE t.secs <= 2147482 -> LimbsOf(t.secs * 1000 + SubMillis(t))
      [] t.secs = 4294967 /\ SubMillis(t) < 296 ->
            <<65536 - (296 - SubMillis(t)), 65535>>
      [] t.secs >= 4294967 /\ t.secs <= 6442449
            /\ ~(t.secs = 4294967 /\ SubMillis(t) < 296) ->
            LimbsOf((t.secs - 4294967) * 1000 + SubMillis(t) - 296)
      [] OTHER -> <<0, 0>>

Covered(t) == t.secs <= 2147482 \/ (t.secs >= 4294967 /\ t.secs <= 6442449)

C9_TimeoutMillisMod32 ==
    Running =>
        \A i \in CallIdx(TimeoutFns) :
            /\ HasTimeout
            /\ Covered(self.options.timeout) =>
                calls[i].u32 = WantTimeout(self.options.timeout)

C9_Witness ==
    /\ pc = "return"
    /\ HasTimeout
    /\ self.options.timeout.secs = 4294968
    /\ \E i \in CallIdx(TimeoutFns) : calls[i].u32 = <<704, 0>>

\* C10: every buffer whose pointer was set on the command is allocated when
\* the command is dispatched and until the dispatch has returned; the id
\* buffer is released only at the end of encode, the value buffer never.
StoreDispatches == {i \in 1..Len(dispatched) : dispatched[i].fn = "lcb_store"}

CStringsLive == {a \in DOMAIN heap : heap[a].type = "CString"}

C10_BuffersOutliveDispatch ==
    /\ Running =>
        /\ \A i \in 1..Len(calls) :
            calls[i].ptr # NULL =>
                /\ calls[i].ptr \in DOMAIN heap
                /\ heap[calls[i].ptr].type = "CString"
        /\ id_encoded # NULL => id_encoded \in CStringsLive
        /\ value # NULL => value \in CStringsLive
        /\ pc = "return" =>
            /\ id_encoded \in CStringsLive
            /\ IsStore => value \in CStringsLive /\ value # id_encoded
    /\ pc = "idle" => Cardinality(CStringsLive) = Cardinality(StoreDispatches)

C10_Witness ==
    /\ pc = "return"
    /\ IsStore
    /\ calls[Len(calls)].fn = "lcb_store"
    /\ calls[2].ptr = id_encoded
    /\ calls[4].ptr = value
    /\ {id_encoded, value} \subseteq DOMAIN heap

====
